---------------------------- MODULE Spec2Model ----------------------------
(***************************************************************************)
(* Model of the sphere_mapping serial pipeline:                            *)
(*   src/src/utils/serial_parser.py  (line grammars, parse_line)           *)
(*   src/src/utils/measure.py        (Measurement, Calibration)            *)
(*   src/src/utils/quaternion.py     (Quaternion.update)                   *)
(*   src/src/sphere_app.py           (stream_data, on_timer)               *)
(*                                                                         *)
(* Text is a sequence of one-character strings.  Numbers decoded from text *)
(* are exact decimals <<m, e>> meaning m / 10^e, kept in lowest form.      *)
(***************************************************************************)
EXTENDS Integers, Sequences, FiniteSets, TLC

\* ------------------------------------------------------------------ bounds
\* Longest run of integer digits in a sample numeral.
MaxIntDigits == 2
\* Longest run of fraction digits in a sample numeral.
MaxFracDigits == 1
\* The wall clock is observed in 0..MaxClock.
MaxClock == 2
\* SCAL commands without a report in between are counted up to this value.
MaxOutstanding == 2

\* The characters a read that timed out is short of the line's end.
MaxCut == 2

\* -------------------------------------------------------------- characters
DigitChars == <<"0", "1", "2", "3", "4", "5", "6", "7", "8", "9">>

IsDigit(c) == \E d \in 1..10 : DigitChars[d] = c

DigitVal(c) == (CHOOSE d \in 1..10 : DigitChars[d] = c) - 1

\* str.strip() with no argument removes these from both ends.
IsSpace(c) == c \in {" ", "\t", "\r", "\n"}

MeasPrefix == <<"M", "e", "a", "s", "u", "r", "e", "m", "e", "n", "t", ":", " ">>

CalPrefix == <<"C", "a", "l", "i", "b", "r", "a", "t", "i", "o", "n", ":", " ">>

\* The separator without its space.
FieldSep_comma == <<",">>

FieldSep == <<",", " ">>

ScalCommand == <<"S", "C", "A", "L", "\r">>

\* TRUE iff the literal lit occurs in s starting at index i.
HasAt(s, i, lit) ==
    /\ i >= 1
    /\ i + Len(lit) - 1 <= Len(s)
    /\ \A k \in 1..Len(lit) : s[i + k - 1] = lit[k]

SetMax(S) == CHOOSE x \in S : \A y \in S : y <= x

SetMin(S) == CHOOSE x \in S : \A y \in S : x <= y

\* ------------------------------------------------------------ the grammars
\* Index just past the longest run of digits of s that starts at i.
RECURSIVE DigitRunEnd(_, _)
DigitRunEnd(s, i) ==
    IF i <= Len(s) /\ IsDigit(s[i]) THEN DigitRunEnd(s, i + 1) ELSE i

\* The indices just past a match of  -?\d+  at i.
IntEnds(s, i) ==
    LET d == IF i <= Len(s) /\ s[i] = "-" THEN i + 1 ELSE i
        e == DigitRunEnd(s, d)
    IN  (d + 1)..e

\* The indices just past a match of  \d+  at i.
UIntEnds(s, i) == (i + 1)..DigitRunEnd(s, i)

\* The indices just past a match of  -?\d+(?:\.\d+)?  at i.
FloatEnds(s, i) ==
    LET ie == IntEnds(s, i)
        withFrac == UNION { IF e <= Len(s) /\ s[e] = "." THEN UIntEnds(s, e + 1) ELSE {}
                            : e \in ie }
    IN  ie \cup withFrac

FieldEnds(s, i, kind) ==
    CASE kind = "float" -> FloatEnds(s, i)
      [] kind = "int"   -> IntEnds(s, i)
      [] kind = "uint"  -> UIntEnds(s, i)

\* The ends of the field at i after which the rest of the pattern matches.
\* All quantifiers are greedy, so the regex engine settles on the largest.
RECURSIVE FieldsMatch(_, _, _)
FeasibleEnds(s, i, kinds) ==
    { e \in FieldEnds(s, i, Head(kinds)) :
        \/ Len(kinds) = 1
        \/ /\ HasAt(s, e, FieldSep)
           /\ FieldsMatch(s, e + Len(FieldSep), Tail(kinds)) }

FieldsMatch(s, i, kinds) ==
    kinds = <<>> \/ FeasibleEnds(s, i, kinds) # {}

\* The captured groups, as texts, of the fields matched from index i.
RECURSIVE Groups(_, _, _)
Groups(s, i, kinds) ==
    IF kinds = <<>> THEN <<>>
    ELSE LET e == SetMax(FeasibleEnds(s, i, kinds))
         IN  <<SubSeq(s, i, e - 1)>> \o Groups(s, e + Len(FieldSep), Tail(kinds))

MeasKinds == <<"float", "float", "float", "float", "float", "float">>

CalKinds == <<"int", "int", "int", "int", "int", "int", "uint">>

\* pattern.search(line): the leftmost index at which the pattern matches;
\* the trailing \r?\n? matches the empty text, so nothing is required after
\* the last field.
MatchStarts(s, prefix, kinds) ==
    { i \in 1..Len(s) : HasAt(s, i, prefix) /\ FieldsMatch(s, i + Len(prefix), kinds) }

Search(s, prefix, kinds) ==
    LET starts == MatchStarts(s, prefix, kinds)
    IN  IF starts = {} THEN <<>>
        ELSE Groups(s, SetMin(starts) + Len(prefix), kinds)

meas_pattern(s) == Search(s, MeasPrefix, MeasKinds)

cal_pattern(s) == Search(s, CalPrefix, CalKinds)

\* ------------------------------------------------------------- conversions
\* The natural number written by a run of digits.
RECURSIVE DigitsValue(_)
DigitsValue(t) ==
    IF t = <<>> THEN 0
    ELSE 10 * DigitsValue(SubSeq(t, 1, Len(t) - 1)) + DigitVal(t[Len(t)])

RECURSIVE Pow10(_)
Pow10(n) == IF n = 0 THEN 1 ELSE 10 * Pow10(n - 1)

\* m / 10^e in lowest form.
RECURSIVE Lowest(_, _)
Lowest(m, e) ==
    IF e > 0 /\ m % 10 = 0 THEN Lowest(m \div 10, e - 1) ELSE <<m, e>>

\* int(text) with the sign dropped.
IntOf_unsigned(t) ==
    IF t[1] = "-" THEN DigitsValue(Tail(t)) ELSE DigitsValue(t)

\* int(text) for a text matching -?\d+ .
IntOf(t) ==
    IF t[1] = "-" THEN 0 - DigitsValue(Tail(t)) ELSE DigitsValue(t)

\* float(text) with the fraction digits dropped.
FloatOf_intpart(t) ==
    LET neg  == t[1] = "-"
        body == IF neg THEN Tail(t) ELSE t
        dots == { k \in 1..Len(body) : body[k] = "." }
        ip   == IF dots = {} THEN body ELSE SubSeq(body, 1, SetMin(dots) - 1)
    IN  <<IF neg THEN 0 - DigitsValue(ip) ELSE DigitsValue(ip), 0>>

\* float(text) for a text matching -?\d+(?:\.\d+)? .
FloatOf(t) ==
    LET neg  == t[1] = "-"
        body == IF neg THEN Tail(t) ELSE t
        dots == { k \in 1..Len(body) : body[k] = "." }
        ip   == IF dots = {} THEN body ELSE SubSeq(body, 1, SetMin(dots) - 1)
        fp   == IF dots = {} THEN <<>> ELSE SubSeq(body, SetMin(dots) + 1, Len(body))
        mag  == DigitsValue(ip) * Pow10(Len(fp)) + DigitsValue(fp)
    IN  Lowest(IF neg THEN 0 - mag ELSE mag, Len(fp))

\* ------------------------------------------------------------- value types
NoResult == [kind |-> "None"]

Measurement(mag, acc) == [kind |-> "Measurement", mag |-> mag, acc |-> acc]

Calibration(is_constant, center, scale, radius) ==
    [kind |-> "Calibration", is_constant |-> is_constant,
     center |-> center, scale |-> scale, radius |-> radius]

\* ---------------------------------------------------------------- parse_line
parse_line(line) ==
    LET m == meas_pattern(line)
        c == cal_pattern(line)
    IN  IF m # <<>>
        THEN Measurement(<<FloatOf(m[1]), FloatOf(m[2]), FloatOf(m[3])>>,
                         <<FloatOf(m[4]), FloatOf(m[5]), FloatOf(m[6])>>)
        ELSE IF c # <<>>
        THEN Calibration(TRUE,
                         <<IntOf(c[1]), IntOf(c[2]), IntOf(c[3])>>,
                         <<IntOf(c[4]), IntOf(c[5]), IntOf(c[6])>>,
                         IntOf(c[7]))
        ELSE NoResult

\* ------------------------------------------------------ Quaternion.update
\* Quaternion.__init__: q = [1, 0, 0, 0].
IdentityQ == [kind |-> "identity", acc |-> <<0, 0, 0>>, mag |-> <<0, 0, 0>>]

\* The components of v on one scale: integers in units of 10^(-E), E the
\* largest exponent of the three components.
Scaled(v) ==
    LET E == SetMax({v[1][2], v[2][2], v[3][2]})
    IN  [i \in 1..3 |-> v[i][1] * Pow10(E - v[i][2])]

\* The square of np.linalg.norm(v), in units of 10^(-2E).
NormSq(v) ==
    LET c == Scaled(v)
    IN  c[1] * c[1] + c[2] * c[2] + c[3] * c[3]

Abs(n) == IF n < 0 THEN 0 - n ELSE n

RECURSIVE Gcd(_, _)
Gcd(a, b) == IF b = 0 THEN a ELSE Gcd(b, a % b)

\* v / norm(v) for a vector of norm > 0: the direction of v, held as the
\* shortest integer vector along it, so that v and every positive multiple
\* of v normalise to one value.
Normalized(v) ==
    LET c == Scaled(v)
        g == Gcd(Gcd(Abs(c[1]), Abs(c[2])), Abs(c[3]))
    IN  [i \in 1..3 |-> c[i] \div g]

\* ahrs FQA().estimate(acc, mag): a value fixed by the two unit vectors.
FQA_estimate(acc, mag) == [kind |-> "fqa", acc |-> acc, mag |-> mag]

\* A matrix entry: a number, or a term in the components of a q whose
\* components the fusion step decides.
Num(n) == [num |-> <<n>>, term |-> ""]

Term(name) == [num |-> <<>>, term |-> name]

\* The rotation block of to_matrix4, lines 41-46, from w, x, y, z.
Rotation(w, x, y, z) ==
    <<<<1 - 2 * (y * y + z * z), 2 * (x * y - z * w), 2 * (x * z + y * w)>>,
      <<2 * (x * y + z * w), 1 - 2 * (x * x + z * z), 2 * (y * z - x * w)>>,
      <<2 * (x * z - y * w), 2 * (y * z + x * w), 1 - 2 * (x * x + y * y)>>>>

\* Entry (i, j) of the rotation block for q: computed for the q of
\* __init__, a term for a q that fqa.estimate returned.
RotationEntry(q, i, j) ==
    IF q.kind = "identity"
    THEN Num(Rotation(1, 0, 0, 0)[i][j])
    ELSE Term(<<<<"R11", "R12", "R13">>, <<"R21", "R22", "R23">>,
                <<"R31", "R32", "R33">>>>[i][j])

\* to_matrix4 with the last row left at zero.
to_matrix4_zerorow(q) ==
    [i \in 1..4 |->
        [j \in 1..4 |->
            IF i <= 3 /\ j <= 3 THEN RotationEntry(q, i, j) ELSE Num(0)]]

\* Quaternion.to_matrix4(): the rotation block, a last column of 0 in the
\* first three rows, and the last row [0, 0, 0, 1].
to_matrix4(q) ==
    [i \in 1..4 |->
        [j \in 1..4 |->
            IF i <= 3 /\ j <= 3 THEN RotationEntry(q, i, j)
            ELSE IF i = 4 /\ j = 4 THEN Num(1) ELSE Num(0)]]

\* Quaternion.update without the early returns on a zero norm.
Quaternion_update_nocheck(q, m) ==
    LET unit(v) == IF NormSq(v) > 0 THEN Normalized(v) ELSE <<0, 0, 0>>
    IN  [q |-> FQA_estimate(unit(m.acc), unit(m.mag)),
         warn |-> "none", fused |-> TRUE]

\* Quaternion.update(measurement): the new q, the warning printed, and
\* whether fqa.estimate was called.
Quaternion_update(q, m) ==
    IF ~(NormSq(m.acc) > 0)
    THEN [q |-> q, warn |-> "Warning: Zero accelerometer reading", fused |-> FALSE]
    ELSE IF ~(NormSq(m.mag) > 0)
    THEN [q |-> q, warn |-> "Warning: Zero magnetometer reading", fused |-> FALSE]
    ELSE [q |-> FQA_estimate(Normalized(m.acc), Normalized(m.mag)),
          warn |-> "none", fused |-> TRUE]

\* ------------------------------------------------------------ sample texts
\* A numeral as the device writes it: sign, integer part, fraction digits.
RECURSIVE DecimalText(_)
DecimalText(n) ==
    IF n < 10 THEN <<DigitChars[n + 1]>>
    ELSE DecimalText(n \div 10) \o <<DigitChars[(n % 10) + 1]>>

NumeralText(x) ==
    (IF x.neg THEN <<"-">> ELSE <<>>)
    \o DecimalText(x.ip)
    \o (IF x.fd = <<>> THEN <<>>
        ELSE <<".">> \o [i \in 1..Len(x.fd) |-> DigitChars[x.fd[i] + 1]])

\* The number a numeral denotes, as m / 10^e in lowest form.
RECURSIVE FracUnits(_)
FracUnits(fd) ==
    IF fd = <<>> THEN 0
    ELSE fd[1] * Pow10(Len(fd) - 1) + FracUnits(Tail(fd))

NumeralValue(x) ==
    LET mag == x.ip * Pow10(Len(x.fd)) + FracUnits(x.fd)
    IN  Lowest(IF x.neg THEN 0 - mag ELSE mag, Len(x.fd))

RECURSIVE IntSample(_)
IntSample(k) == IF k = 0 THEN 0 ELSE 10 * IntSample(k - 1) + k

Numeral(neg, ip, fd) == [neg |-> neg, ip |-> ip, fd |-> fd]

FloatNumerals ==
    { Numeral(FALSE, 0, <<>>),
      Numeral(TRUE, IntSample(MaxIntDigits), <<>>),
      Numeral(FALSE, 1, [i \in 1..MaxFracDigits |-> 5]),
      Numeral(TRUE, 0, [i \in 1..MaxFracDigits |-> 0]) }

IntNumerals ==
    { Numeral(FALSE, 0, <<>>),
      Numeral(TRUE, IntSample(MaxIntDigits), <<>>),
      Numeral(FALSE, 7, <<>>) }

RadiusNumerals ==
    { Numeral(FALSE, 0, <<>>), Numeral(FALSE, IntSample(MaxIntDigits), <<>>) }

RECURSIVE JoinFields(_)
JoinFields(xs) ==
    IF Len(xs) = 1 THEN NumeralText(xs[1])
    ELSE NumeralText(xs[1]) \o FieldSep \o JoinFields(Tail(xs))

\* "Measurement: f1, f2, f3, f4, f5, f6"
MeasLine(xs) == MeasPrefix \o JoinFields(xs)

\* "Calibration: i1, i2, i3, i4, i5, i6, i7"
CalLine(xs) == CalPrefix \o JoinFields(xs)

MeasInputs == [1..6 -> FloatNumerals]

CalInputs == { xs \in [1..7 -> IntNumerals \cup RadiusNumerals] :
                 /\ \A i \in 1..6 : xs[i] \in IntNumerals
                 /\ xs[7] \in RadiusNumerals }

\* ------------------------------------------------------------------ state
VARIABLES
    pc,          \* where stream_data (or the unit under test) is
    store,       \* the client's key-value store
    ser,         \* the serial handle: "none", "open" or "closed"
    status,      \* how the process ended: "running", "ok", "error", "exit1"
    clock,       \* time.time() / datetime.now()
    last,        \* stream_data's  last
    q,           \* Quaternion.q
    cfg,         \* the calibration_type this tick read (line 51)
    tx,          \* what this tick wrote to the serial port
    calls,       \* the set_value calls this tick made, in order
    rx,          \* what read_serial met: "none", "empty", "error", "line",
                 \* or "partial" for a line read short of its end
    line,        \* the text handed to parse_line
    result,      \* what parse_line returned
    out,         \* what this tick streamed to the client, in order
    exc,         \* the exception on_timer raised, or "none"
    warn,        \* what Quaternion.update printed
    fused,       \* whether Quaternion.update called fqa.estimate
    q0,          \* q before the call of Quaternion.update
    input,       \* the numerals the device wrote into the line
    outstanding, \* SCAL commands sent since the last report was received
    unserved,    \* an operator's request that no SCAL was sent after
    quiet,       \* nobody wrote the store since a tick reset the mode
    quietAtRead, \* quiet, when this tick read calibration_type
    retry,       \* this tick follows a tick whose write of SCAL raised
    logged,      \* what logger.error recorded at startup or in this tick
    args,        \* the operands of the function under test
    ret,         \* what the function under test returned
    curr_calibration, \* the calibration the change detection last adopted
    recSends     \* the Reconciler's decision in this tick to send SCAL

tickvars == <<cfg, tx, calls, rx, line, result, out, exc, warn, fused, q0, input>>

histvars == <<outstanding, unserved, quiet, quietAtRead, retry>>

unitvars == <<args, ret>>

reconvars == <<curr_calibration, recSends>>

auxvars == <<logged, unitvars, reconvars>>

vars == <<pc, store, ser, status, clock, last, q, tickvars, histvars, auxvars>>

\* ------------------------------------------------------------- the store
NumKeys == <<"center_x", "center_y", "center_z",
             "scale_x", "scale_y", "scale_z", "radius">>

\* A key is unset (get_value gives None) or holds one value.
Unset == <<>>

\* client.clear_all_values()
ClearedStore ==
    [calibration_type |-> "None", num |-> [k \in 1..7 |-> Unset]]

\* client.set_value(key, value) as a logged call.
SetNum(k, v) == [key |-> NumKeys[k], num |-> <<v>>, str |-> ""]

SetMode(v) == [key |-> "calibration_type", num |-> <<>>, str |-> v]

\* handle_calibration_data with the centre and the scale exchanged.
handle_calibration_data_swapped(cal) ==
    <<SetNum(1, cal.scale[1]), SetNum(2, cal.scale[2]), SetNum(3, cal.scale[3]),
      SetNum(4, cal.center[1]), SetNum(5, cal.center[2]), SetNum(6, cal.center[3]),
      SetNum(7, cal.radius), SetMode("constant")>>

\* handle_calibration_data(client, cal): its set_value calls, in order.
handle_calibration_data(cal) ==
    <<SetNum(1, cal.center[1]), SetNum(2, cal.center[2]), SetNum(3, cal.center[3]),
      SetNum(4, cal.scale[1]), SetNum(5, cal.scale[2]), SetNum(6, cal.scale[3]),
      SetNum(7, cal.radius), SetMode("constant")>>

\* The store after one set_value call, and after a sequence of them.
Applied(st, c) ==
    IF c.key = "calibration_type"
    THEN [st EXCEPT !.calibration_type = c.str]
    ELSE LET k == CHOOSE n \in 1..7 : NumKeys[n] = c.key
         IN  [st EXCEPT !.num[k] = c.num]

RECURSIVE AppliedAll(_, _)
AppliedAll(st, cs) ==
    IF cs = <<>> THEN st ELSE AppliedAll(Applied(st, Head(cs)), Tail(cs))

\* ------------------------------------------------------------- the device
\* str.strip()
RECURSIVE LStrip(_)
LStrip(s) == IF s # <<>> /\ IsSpace(s[1]) THEN LStrip(Tail(s)) ELSE s

RECURSIVE RStrip(_)
RStrip(s) ==
    IF s # <<>> /\ IsSpace(s[Len(s)]) THEN RStrip(SubSeq(s, 1, Len(s) - 1)) ELSE s

Strip(s) == LStrip(RStrip(s))

LineEnd == <<"\r", "\n">>

N0 == Numeral(FALSE, 0, <<>>)

NNegZero == Numeral(TRUE, 0, [i \in 1..MaxFracDigits |-> 0])

NNeg == Numeral(TRUE, IntSample(MaxIntDigits), <<>>)

NFrac == Numeral(FALSE, 1, [i \in 1..MaxFracDigits |-> 5])

N7 == Numeral(FALSE, 7, <<>>)

NPos == Numeral(FALSE, IntSample(MaxIntDigits), <<>>)

Frame(xs, text) == [input |-> xs, raw |-> text \o LineEnd]

\* "Measurement: 100,0,0,0,0,-1000": six numbers with no space after the
\* commas.
UnspacedLine ==
    MeasPrefix \o <<"1", "0", "0", ",", "0", ",", "0", ",", "0", ",", "0", ",",
                   "-", "1", "0", "0", "0">>

\* The lines the device sends in the model.
DeviceFrames ==
    LET good    == <<NFrac, N0, NNeg, N0, NNegZero, NNeg>>
        zeroAcc == <<NFrac, N0, NNeg, N0, NNegZero, N0>>
        calA    == <<N0, NNeg, N7, N7, N0, NNeg, NPos>>
        calB    == <<N7, N7, N7, N0, N0, N0, N0>>
    IN  { Frame(good, MeasLine(good)),
          Frame(zeroAcc, MeasLine(zeroAcc)),
          Frame(calA, CalLine(calA)),
          Frame(calB, CalLine(calB)),
          Frame(<<>>, <<"b", "o", "o", "t", " ", "o", "k">>),
          Frame(<<>>, UnspacedLine),
          Frame(<<>>, CalPrefix \o JoinFields(<<N7, N7, N7, N0, N0, N0, NNeg>>)),
          Frame(<<>>, <<>>) }

\* Serial(..., timeout=1) and readline() of lines 24 and 36: readline
\* returns what has arrived when the timeout ends, so a line still on the
\* wire is read without its last characters and without its terminator.
PartialReads ==
    { [input |-> f.input,
       raw |-> SubSeq(f.raw, 1, Len(f.raw) - Len(LineEnd) - k)] :
        f \in { g \in DeviceFrames : g.input # <<>> }, k \in 1..MaxCut }

\* What the operator writes to calibration_type.
OperatorModes == {"constant", "device"}

\* ------------------------------------------------------- Calibration.__eq__
\* Calibration.__eq__ with the comparison of radius left out.
Calibration_eq_noradius(self, other) ==
    IF other.kind # "Calibration"
    THEN "NotImplemented"
    ELSE IF /\ self.is_constant = other.is_constant
            /\ self.center = other.center
            /\ self.scale = other.scale
         THEN "True" ELSE "False"

\* Calibration.__eq__(self, other): NotImplemented for an other that is no
\* Calibration, else the conjunction of the four comparisons.
Calibration_eq(self, other) ==
    IF other.kind # "Calibration"
    THEN "NotImplemented"
    ELSE IF /\ self.is_constant = other.is_constant
            /\ self.center = other.center
            /\ self.scale = other.scale
            /\ self.radius = other.radius
         THEN "True" ELSE "False"

\* a != b for a Calibration a: Python negates __eq__'s answer, and when
\* __eq__ gives NotImplemented (b is None, whose own comparison gives
\* NotImplemented too) falls back to  a is not b.
Calibration_ne(a, b) ==
    IF Calibration_eq(a, b) = "NotImplemented" THEN TRUE
    ELSE Calibration_eq(a, b) = "False"

\* ------------------------------------------------- the change detection
\* The defaults of center_x .. radius in the variant of on_timer that keeps
\* curr_calibration.
DefaultNums == <<20962, 34322, -23924, 1203, 1177, 1133, 48098>>

\* client.get_value(key, default) for the k-th number, and int() of it.
GetNum(st, k) == IF st.num[k] = Unset THEN DefaultNums[k] ELSE st.num[k][1]

\* client.get_value("calibration_type", "constant")
GetMode(st) ==
    IF st.calibration_type = "None" THEN "constant" ELSE st.calibration_type

\* The candidate with is_constant negated.
Candidate_inverted(st) ==
    Calibration(GetMode(st) # "constant",
                <<GetNum(st, 1), GetNum(st, 2), GetNum(st, 3)>>,
                <<GetNum(st, 4), GetNum(st, 5), GetNum(st, 6)>>,
                GetNum(st, 7))

\* The Calibration on_timer builds from the store.
Candidate(st) ==
    Calibration(GetMode(st) = "constant",
                <<GetNum(st, 1), GetNum(st, 2), GetNum(st, 3)>>,
                <<GetNum(st, 4), GetNum(st, 5), GetNum(st, 6)>>,
                GetNum(st, 7))

\* The Reconciler: the candidate differs from the last calibration adopted
\* and asks for a calibration by the device.
ReconcilerSends(st, lastc) ==
    Calibration_ne(Candidate(st), lastc) /\ ~Candidate(st).is_constant

\* if calibration != curr_calibration: curr_calibration = calibration
Adopted(st, lastc) ==
    IF Calibration_ne(Candidate(st), lastc) THEN Candidate(st) ELSE lastc

\* ------------------------------------------------------------ stream_data
\* The tick's own variables before a tick has read anything.
TickIdle ==
    /\ cfg = "unread"
    /\ tx = <<>>
    /\ calls = <<>>
    /\ rx = "none"
    /\ line = <<>>
    /\ result = NoResult
    /\ out = <<>>
    /\ exc = "none"
    /\ warn = "none"
    /\ fused = FALSE
    /\ q0 = IdentityQ
    /\ input = <<>>

\* A store left behind by an earlier session.
LeftoverStore ==
    [calibration_type |-> "device", num |-> [k \in 1..7 |-> <<k>>]]

Init ==
    /\ pc = "start"
    /\ store \in {ClearedStore, LeftoverStore}
    /\ ser = "none"
    /\ status = "running"
    /\ clock = 0
    /\ last = 0
    /\ q = IdentityQ
    /\ TickIdle
    /\ outstanding = 0
    /\ unserved = FALSE
    /\ quiet = FALSE
    /\ quietAtRead = FALSE
    /\ retry = FALSE
    /\ logged = "none"
    /\ args = <<>>
    /\ ret = <<>>
    /\ curr_calibration = NoResult
    /\ recSends = FALSE

\* Lines 38-40: the client's values, streams and frame buffer are cleared.
Startup ==
    /\ pc = "start"
    /\ store' = ClearedStore
    /\ pc' = "open"
    /\ UNCHANGED <<auxvars, ser, status, clock, last, q, tickvars, histvars>>

\* open_serial_port without the sys.exit(1): the failure is logged and
\* stream_data goes on with no handle.
OpenSerial_noexit ==
    /\ pc = "open"
    /\ \/ /\ ser' = "open"
          /\ UNCHANGED logged
       \/ /\ logged' = "Could not open serial port"
          /\ UNCHANGED ser
    /\ pc' = "setup"
    /\ UNCHANGED <<unitvars, reconvars, store, status, clock, last, q, tickvars, histvars>>

\* Line 42, open_serial_port: the handle, or logger.error and sys.exit(1)
\* on SerialException.
OpenSerial ==
    /\ pc = "open"
    /\ \/ /\ ser' = "open"
          /\ pc' = "setup"
          /\ UNCHANGED <<status, logged>>
       \/ /\ logged' = "Could not open serial port"
          /\ status' = "exit1"
          /\ pc' = "exited"
          /\ UNCHANGED ser
    /\ UNCHANGED <<unitvars, reconvars, store, clock, last, q, tickvars, histvars>>

\* Lines 43-45 and 90, all before the try of line 91: the sphere (which
\* loads assets/earth_texture.jpg and opens a canvas), the quaternion, last
\* and the timer.  An exception here leaves stream_data at once.
Setup ==
    /\ pc = "setup"
    /\ \/ /\ q' = IdentityQ
          /\ last' = clock
          /\ pc' = "loop"
          /\ UNCHANGED status
       \/ /\ status' = "error"
          /\ pc' = "exited"
          /\ UNCHANGED <<q, last>>
    /\ UNCHANGED <<auxvars, store, ser, clock, tickvars, histvars>>

\* Lines 51-52: on_timer starts and reads calibration_type; get_value has
\* no default here, so an unset key reads as None.  Beside it runs the
\* change detection of the variant that keeps curr_calibration, on the
\* same store.
TickRead ==
    /\ pc = "loop"
    /\ cfg' = store.calibration_type
    /\ pc' = IF store.calibration_type = "constant" THEN "t_serial" ELSE "t_scal"
    /\ tx' = <<>>
    /\ calls' = <<>>
    /\ rx' = "none"
    /\ line' = <<>>
    /\ result' = NoResult
    /\ out' = <<>>
    /\ exc' = "none"
    /\ warn' = "none"
    /\ fused' = FALSE
    /\ q0' = q
    /\ input' = <<>>
    /\ quietAtRead' = quiet
    /\ retry' = (exc = "SerialException")
    /\ logged' = "none"
    /\ recSends' = ReconcilerSends(store, curr_calibration)
    /\ curr_calibration' = Adopted(store, curr_calibration)
    /\ UNCHANGED <<unitvars, store, ser, status, clock, last, q, outstanding, unserved, quiet>>

\* Lines 54 and 55 exchanged: the mode is reset before the write, so a write
\* that raises leaves "constant" in the store.
ScalWrite_resetfirst ==
    /\ pc = "t_scal"
    /\ \/ /\ tx' = Append(tx, ScalCommand)
          /\ outstanding' = IF outstanding < MaxOutstanding
                            THEN outstanding + 1 ELSE outstanding
          /\ unserved' = FALSE
          /\ pc' = "t_reset"
          /\ UNCHANGED <<exc, store, calls>>
       \/ /\ store' = Applied(store, SetMode("constant"))
          /\ calls' = Append(calls, SetMode("constant"))
          /\ exc' = "SerialException"
          /\ pc' = "t_raised"
          /\ UNCHANGED <<tx, outstanding, unserved>>
    /\ UNCHANGED <<auxvars, ser, status, clock, last, q, cfg, rx, line, result,
                   out, warn, fused, q0, input, quiet, quietAtRead, retry>>

\* Line 54: ser.write("SCAL\r"); the write returns or raises.
ScalWrite ==
    /\ pc = "t_scal"
    /\ \/ /\ tx' = Append(tx, ScalCommand)
          /\ outstanding' = IF outstanding < MaxOutstanding
                            THEN outstanding + 1 ELSE outstanding
          /\ unserved' = FALSE
          /\ pc' = "t_reset"
          /\ UNCHANGED exc
       \/ /\ exc' = "SerialException"
          /\ pc' = "t_raised"
          /\ UNCHANGED <<tx, outstanding, unserved>>
    /\ UNCHANGED <<auxvars, store, ser, status, clock, last, q, cfg, calls, rx, line, result,
                   out, warn, fused, q0, input, quiet, quietAtRead, retry>>

\* Line 55 left out: the mode is not written back.
ResetMode_skipped ==
    /\ pc = "t_reset"
    /\ pc' = "t_serial"
    /\ quiet' = TRUE
    /\ UNCHANGED <<auxvars, store, ser, status, clock, last, q, tickvars,
                   outstanding, unserved, quietAtRead, retry>>

\* Line 55: client.set_value("calibration_type", "constant").
ResetMode ==
    /\ pc = "t_reset"
    /\ store' = Applied(store, SetMode("constant"))
    /\ calls' = Append(calls, SetMode("constant"))
    /\ quiet' = TRUE
    /\ pc' = "t_serial"
    /\ UNCHANGED <<auxvars, ser, status, clock, last, q, cfg, tx, rx, line, result, out,
                   exc, warn, fused, q0, input, outstanding, unserved, quietAtRead, retry>>

\* Lines 58-66, read_serial and parse_line: nothing waiting, a read error
\* (both give None), or one line, decoded and stripped.  An empty line and a
\* line parse_line gives None for end the tick; a report is counted as
\* received.
ReadParse ==
    /\ pc = "t_serial"
    /\ \/ /\ rx' = "empty"
          /\ pc' = "loop"
          /\ UNCHANGED <<line, result, input, outstanding, logged>>
       \/ /\ rx' = "error"
          /\ logged' = "Error reading from serial port"
          /\ pc' = "loop"
          /\ UNCHANGED <<line, result, input, outstanding>>
       \/ \E how \in {"line", "partial"} :
          \E f \in IF how = "line" THEN DeviceFrames ELSE PartialReads :
            LET text == Strip(f.raw)
                res  == IF text = <<>> THEN NoResult ELSE parse_line(text)
            IN  /\ rx' = how
                /\ line' = text
                /\ input' = f.input
                /\ result' = res
                /\ pc' = CASE res.kind = "None" -> "loop"
                           [] res.kind = "Calibration" -> "t_cal"
                           [] res.kind = "Measurement" -> "t_meas"
                /\ outstanding' = IF res.kind = "Calibration" THEN 0 ELSE outstanding
                /\ UNCHANGED logged
    /\ UNCHANGED <<unitvars, reconvars, store, ser, status, clock, last, q, cfg, tx,
                   calls, out, exc, warn, fused, q0, unserved, quiet, quietAtRead, retry>>

\* Lines 67-69 without the return: the tick goes on to line 71.
HandleCal_fallthrough ==
    /\ pc = "t_cal"
    /\ LET cs == handle_calibration_data(result)
       IN  /\ store' = AppliedAll(store, cs)
           /\ calls' = calls \o cs
    /\ pc' = "t_meas"
    /\ UNCHANGED <<auxvars, ser, status, clock, last, q, cfg, tx, rx, line, result, out,
                   exc, warn, fused, q0, input, histvars>>

\* Lines 67-69: handle_calibration_data, then return.
HandleCal ==
    /\ pc = "t_cal"
    /\ LET cs == handle_calibration_data(result)
       IN  /\ store' = AppliedAll(store, cs)
           /\ calls' = calls \o cs
    /\ pc' = "loop"
    /\ UNCHANGED <<auxvars, ser, status, clock, last, q, cfg, tx, rx, line, result, out,
                   exc, warn, fused, q0, input, histvars>>

\* The parameters of Quaternion.update after self (quaternion.py line 15)
\* and the arguments on_timer passes it (sphere_app.py line 76).
UpdateParams == 1

UpdateArgsPassed == 2

Publication(ch, t) == [channel |-> ch, t |-> t]

\* Lines 84-88: stream_rgb of the frame, then yaw, pitch and roll, the three
\* with the t_datetime of line 81.  The frame carries no time.
Published(t) ==
    <<Publication("frame_buffer", -1), Publication("yaw", t),
      Publication("pitch", t), Publication("roll", t)>>

\* Lines 71-88: dt and last, then quat.update(result, dt).  Python raises
\* TypeError when the arguments passed are not the parameters declared; the
\* rest of the tick (sphere.update, to_euler_zyx, the streams) runs only
\* when the call returns.
Measure ==
    /\ pc = "t_meas"
    /\ last' = clock
    /\ q0' = q
    /\ IF UpdateArgsPassed # UpdateParams
       THEN /\ exc' = "TypeError"
            /\ pc' = "t_raised"
            /\ UNCHANGED <<q, warn, fused, out>>
       ELSE LET r == Quaternion_update(q, result)
            IN  /\ q' = r.q
                /\ warn' = r.warn
                /\ fused' = r.fused
                /\ out' = Published(clock)
                /\ pc' = "loop"
                /\ UNCHANGED exc
    /\ UNCHANGED <<auxvars, store, ser, status, clock, cfg, tx, calls, rx, line, result,
                   input, histvars>>

\* on_timer raised.  The timer's event emitter logs the exception and the
\* loop goes on, or the exception leaves app.run() and the finally of lines
\* 95-97 closes the port.
TimerError ==
    /\ pc = "t_raised"
    /\ \/ /\ pc' = "loop"
          /\ UNCHANGED <<ser, status>>
       \/ /\ ser' = "closed"
          /\ status' = "error"
          /\ pc' = "exited"
    /\ UNCHANGED <<auxvars, store, clock, last, q, tickvars, histvars>>

\* Lines 91-97: app.run() returns, or KeyboardInterrupt is caught; the
\* finally closes the port.
LoopEnd ==
    /\ pc = "loop"
    /\ ser' = "closed"
    /\ status' = "ok"
    /\ pc' = "exited"
    /\ UNCHANGED <<auxvars, store, clock, last, q, tickvars, histvars>>

InLoop == pc \in {"loop", "t_scal", "t_reset", "t_serial", "t_cal", "t_meas", "t_raised"}

\* The operator sets calibration_type in the client, at any moment.
OperatorWrite ==
    /\ InLoop
    /\ \E v \in OperatorModes :
         /\ store' = Applied(store, SetMode(v))
         /\ unserved' = (v # "constant")
    /\ quiet' = FALSE
    /\ UNCHANGED <<auxvars, pc, ser, status, clock, last, q, tickvars, outstanding, quietAtRead, retry>>

\* Time passes.
Advance ==
    /\ InLoop
    /\ clock < MaxClock
    /\ clock' = clock + 1
    /\ UNCHANGED <<auxvars, pc, store, ser, status, last, q, tickvars, histvars>>

Next ==
    \/ Startup
    \/ OpenSerial
    \/ Setup
    \/ TickRead
    \/ ScalWrite
    \/ ResetMode
    \/ ReadParse
    \/ HandleCal
    \/ Measure
    \/ TimerError
    \/ LoopEnd
    \/ OperatorWrite
    \/ Advance

Spec == Init /\ [][Next]_vars

\* ----------------------------------------------------- the units on their own
\* parse_line and Quaternion.update applied to one line of text.
SampleQ == FQA_estimate(<<0, 0, -1>>, <<1, 0, 0>>)

\* Lines that hold a frame and more, and the six numbers without spaces.
MalformedLines ==
    LET meas == MeasLine(<<NFrac, N0, NNeg, N0, NNegZero, NNeg>>)
        cal  == CalLine(<<N0, NNeg, N7, N7, N0, NNeg, NPos>>)
    IN  { meas \o FieldSep \o <<"7">>,
          <<"x", " ">> \o meas,
          cal \o <<" ", "o", "k">>,
          cal \o <<" ">> \o meas,
          UnspacedLine }

UnitInit ==
    /\ pc = "u_parse"
    /\ \/ \E xs \in MeasInputs \cup CalInputs :
            /\ input = xs
            /\ line = IF Len(xs) = 6 THEN MeasLine(xs) ELSE CalLine(xs)
       \/ /\ input = <<>>
          /\ line \in MalformedLines
    /\ result = NoResult
    /\ q \in {IdentityQ, SampleQ}
    /\ q0 = q
    /\ warn = "none"
    /\ fused = FALSE
    /\ store = ClearedStore
    /\ ser = "none"
    /\ status = "running"
    /\ clock = 0
    /\ last = 0
    /\ cfg = "unread"
    /\ tx = <<>>
    /\ calls = <<>>
    /\ rx = "none"
    /\ out = <<>>
    /\ exc = "none"
    /\ outstanding = 0
    /\ unserved = FALSE
    /\ quiet = FALSE
    /\ quietAtRead = FALSE
    /\ retry = FALSE
    /\ logged = "none"
    /\ args = <<>>
    /\ ret = <<>>
    /\ curr_calibration = NoResult
    /\ recSends = FALSE

UnitParse ==
    /\ pc = "u_parse"
    /\ result' = parse_line(line)
    /\ pc' = "u_parsed"
    /\ UNCHANGED <<auxvars, store, ser, status, clock, last, q, cfg, tx, calls, rx, line,
                   out, exc, warn, fused, q0, input, histvars>>

UnitUpdate ==
    /\ pc = "u_parsed"
    /\ result.kind = "Measurement"
    /\ LET r == Quaternion_update(q, result)
       IN  /\ q' = r.q
           /\ warn' = r.warn
           /\ fused' = r.fused
    /\ q0' = q
    /\ pc' = "u_updated"
    /\ UNCHANGED <<auxvars, store, ser, status, clock, last, cfg, tx, calls, rx, line,
                   result, out, exc, input, histvars>>

\* to_matrix4 of the q held after the line was parsed, or after the update.
UnitMatrix ==
    /\ pc \in {"u_parsed", "u_updated"}
    /\ ret' = to_matrix4(q)
    /\ pc' = "u_matrix"
    /\ UNCHANGED <<logged, args, reconvars, store, ser, status, clock, last, q,
                   tickvars, histvars>>

UnitNext == UnitParse \/ UnitUpdate \/ UnitMatrix

UnitSpec == UnitInit /\ [][UnitNext]_vars

\* Calibration.__eq__ applied to two Calibration instances.
SampleCalibrations ==
    { Calibration(c, <<x, 0, 0>>, <<1, 1, s>>, r) :
        c \in BOOLEAN, x \in {0, 7}, s \in {1, 2}, r \in {0, 12} }

EqInit ==
    /\ pc = "e_call"
    /\ args \in SampleCalibrations \X SampleCalibrations
    /\ ret = <<>>
    /\ store = ClearedStore
    /\ ser = "none"
    /\ status = "running"
    /\ clock = 0
    /\ last = 0
    /\ q = IdentityQ
    /\ TickIdle
    /\ outstanding = 0
    /\ unserved = FALSE
    /\ quiet = FALSE
    /\ quietAtRead = FALSE
    /\ retry = FALSE
    /\ logged = "none"
    /\ curr_calibration = NoResult
    /\ recSends = FALSE

\* a == b, b == a and a == a.
EqCall ==
    /\ pc = "e_call"
    /\ ret' = <<Calibration_eq(args[1], args[2]),
                Calibration_eq(args[2], args[1]),
                Calibration_eq(args[1], args[1])>>
    /\ pc' = "e_done"
    /\ UNCHANGED <<logged, args, reconvars, store, ser, status, clock, last, q,
                   tickvars, histvars>>

EqNext == EqCall

EqSpec == EqInit /\ [][EqNext]_vars

\* ------------------------------------------------------------------ claims
\* A tick has run to its end: on_timer returned or raised.
TickOver == pc \in {"loop", "t_raised"} /\ cfg # "unread"

\* The values a report line carries, read off the numerals the device wrote.
IntValue(x) == NumeralValue(x)[1]

ReportNums(xs) == [k \in 1..7 |-> <<IntValue(xs[k])>>]

C2_MeasurementPublished ==
    (TickOver /\ result.kind = "Measurement") =>
        /\ exc = "none"
        /\ Len(out) = 4
        /\ out[1].channel = "frame_buffer"
        /\ <<out[2].channel, out[3].channel, out[4].channel>> = <<"yaw", "pitch", "roll">>
        /\ out[2].t = out[3].t
        /\ out[3].t = out[4].t

\* A per-frame failure: a read error, a line that is no frame, or a
\* Measurement with a zero accelerometer or magnetometer vector.
PerFrameFailure ==
    \/ rx = "error"
    \/ rx = "line" /\ result.kind = "None"
    \/ /\ result.kind = "Measurement"
       /\ (NormSq(result.acc) = 0 \/ NormSq(result.mag) = 0)

\* C3: no per-frame failure makes on_timer raise.
C3_NoFrameRaises == PerFrameFailure => exc = "none"

\* The seven numbers of a parsed report, in the order of the store's keys.
ResultNums(r) ==
    [k \in 1..7 |-> <<IF k <= 3 THEN r.center[k]
                      ELSE IF k <= 6 THEN r.scale[k - 3] ELSE r.radius>>]

\* C4: the step that handles a CalibrationReport leaves the seven numbers of
\* the report under center_x .. radius and "constant" under calibration_type,
\* whatever the store held, and makes exactly these eight writes; for a
\* line read whole the numbers are those the device wrote.
C4_ReportWrittenBack ==
    [][(pc = "t_cal" /\ pc' # "t_cal") =>
          /\ store'.num = ResultNums(result)
          /\ rx = "line" => store'.num = ReportNums(input)
          /\ store'.calibration_type = "constant"
          /\ Len(calls') = Len(calls) + 8
          /\ \A k \in 1..7 :
               calls'[Len(calls) + k] = SetNum(k, ResultNums(result)[k][1])
          /\ calls'[Len(calls) + 8] = SetMode("constant")]_vars

\* A report has been written back over a request the operator made while
\* the tick was running.
C4_Witness ==
    /\ pc = "loop"
    /\ rx = "line"
    /\ result.kind = "Calibration"
    /\ unserved
    /\ store.calibration_type = "constant"
    /\ store.num = ReportNums(input)
    /\ Len(calls) = 8

\* C5: between a SCAL command and the next report received, no second SCAL
\* command is sent.
C5_OneOutstanding == outstanding <= 1

\* C6: a request the operator wrote is never lost: the loop is never idle
\* with the store back at "constant" while no SCAL was sent after the write.
C6_NoRequestDropped ==
    ~(pc = "loop" /\ unserved /\ store.calibration_type = "constant")

\* C8: whenever stream_data has ended after the port was opened, the port
\* is closed.
C8_PortClosedAtExit == (pc = "exited" /\ ser # "none") => ser = "closed"

\* C7: Quaternion.update with a zero accelerometer or magnetometer vector
\* leaves q as it was, prints a warning and does not call the fusion step.
C7_ZeroNormKeepsQ ==
    (pc = "u_updated" /\ (NormSq(result.acc) = 0 \/ NormSq(result.mag) = 0)) =>
        /\ q = q0
        /\ warn # "none"
        /\ ~fused

\* An update with a zero magnetometer vector, on a q that was not the
\* identity.
C7_Witness ==
    /\ pc = "u_updated"
    /\ NormSq(result.acc) > 0
    /\ NormSq(result.mag) = 0
    /\ q0 = SampleQ
    /\ q = SampleQ
    /\ warn = "Warning: Zero magnetometer reading"

\* C9: a line "Measurement: f1, f2, f3, f4, f5, f6" parses to a Measurement
\* with mag = (f1, f2, f3) and acc = (f4, f5, f6), each the number written.
C9_MeasurementDecoded ==
    (pc # "u_parse" /\ Len(input) = 6) =>
        result = Measurement(<<NumeralValue(input[1]), NumeralValue(input[2]),
                               NumeralValue(input[3])>>,
                             <<NumeralValue(input[4]), NumeralValue(input[5]),
                               NumeralValue(input[6])>>)

\* A parsed line whose six numbers are a negative integer, a fraction and
\* zeros, in an order that tells mag from acc.
C9_Witness ==
    /\ pc = "u_parsed"
    /\ input = <<NNeg, NFrac, N0, NFrac, NNegZero, NNeg>>
    /\ result.kind = "Measurement"
    /\ result.mag[1] # result.acc[1]

\* C10: a line "Calibration: i1, i2, i3, i4, i5, i6, i7" parses to a
\* Calibration with is_constant, center = (i1, i2, i3), scale = (i4, i5, i6)
\* and radius = i7.
C10_CalibrationDecoded ==
    (pc # "u_parse" /\ Len(input) = 7) =>
        result = Calibration(TRUE,
                             <<IntValue(input[1]), IntValue(input[2]), IntValue(input[3])>>,
                             <<IntValue(input[4]), IntValue(input[5]), IntValue(input[6])>>,
                             IntValue(input[7]))

\* A parsed report whose centre and scale differ.
C10_Witness ==
    /\ pc = "u_parsed"
    /\ input = <<NNeg, N0, N7, N7, N7, N0, NPos>>
    /\ result.kind = "Calibration"
    /\ result.center # result.scale
    /\ result.radius = IntSample(MaxIntDigits)

\* C11, as stated: a tick that read a line which is neither a Measurement
\* frame nor a Calibration report gets None from parse_line, raises
\* nothing, leaves q alone, writes nothing to the store and publishes
\* nothing.  Stated for the ticks that read a mode the operator wrote and a
\* line that is not empty.
C11_UnrecognizedTickWritesNothing ==
    (TickOver /\ rx = "line" /\ input = <<>> /\ line # <<>> /\ cfg # "None") =>
        /\ result = NoResult
        /\ exc = "none"
        /\ q = q0
        /\ calls = <<>>
        /\ out = <<>>

\* C11, amended: for such a line parse_line gives None and the tick ends at
\* once with nothing raised, q as it was and nothing published; the only
\* write to the store the tick can have made is the reset of the mode, made
\* before the line was read, in a tick that read a mode other than
\* "constant" and sent SCAL.
C11_UnrecognizedIsNoOp ==
    (rx = "line" /\ input = <<>>) =>
        /\ pc \in {"loop", "exited"}
        /\ result = NoResult
        /\ exc = "none"
        /\ q = q0
        /\ out = <<>>
        /\ calls \in {<<>>, <<SetMode("constant")>>}
        /\ calls # <<>> => (cfg # "constant" /\ tx = <<ScalCommand>>)

\* The six numbers without the spaces were read in a tick that had sent
\* SCAL and reset the mode.
C11_Witness ==
    /\ pc = "loop"
    /\ rx = "line"
    /\ line = UnspacedLine
    /\ result = NoResult
    /\ calls = <<SetMode("constant")>>
    /\ out = <<>>

\* C12: parse_line returns a Measurement only for a line that is a
\* Measurement frame from its first character to its last, and a
\* Calibration only for a line that is a Calibration report from its first
\* character to its last; a line with more text or more fields, or with
\* both kinds of frame, gives None.
C12_WholeLineOnly ==
    (pc # "u_parse") =>
        /\ result.kind = "Measurement" => (Len(input) = 6 /\ line = MeasLine(input))
        /\ result.kind = "Calibration" => (Len(input) = 7 /\ line = CalLine(input))
        /\ line \in MalformedLines => result = NoResult

\* C14: two Calibration instances compare equal exactly when is_constant,
\* center, scale and radius are all equal; the comparison gives the same
\* answer with the operands exchanged, and every instance equals itself.
C14_EqualityByValue ==
    (pc = "e_done") =>
        LET a == args[1]
            b == args[2]
        IN  /\ ret[1] \in {"True", "False"}
            /\ (ret[1] = "True") <=> (/\ a.is_constant = b.is_constant
                                      /\ a.center = b.center
                                      /\ a.scale = b.scale
                                      /\ a.radius = b.radius)
            /\ ret[2] = ret[1]
            /\ ret[3] = "True"

\* Two instances that differ in the radius alone compared unequal.
C14_Witness ==
    /\ pc = "e_done"
    /\ args[1].radius # args[2].radius
    /\ [args[1] EXCEPT !.radius = args[2].radius] = args[2]
    /\ ret = <<"False", "False", "True">>

\* C16: to_matrix4 returns four rows of four entries, the last row
\* [0, 0, 0, 1] and the last column (0, 0, 0, 1), for the q of a fresh
\* estimator and for every q an update left.
C16_HomogeneousRowAndColumn ==
    (pc = "u_matrix") =>
        /\ DOMAIN ret = 1..4
        /\ \A i \in 1..4 : DOMAIN ret[i] = 1..4
        /\ ret[4] = <<Num(0), Num(0), Num(0), Num(1)>>
        /\ <<ret[1][4], ret[2][4], ret[3][4], ret[4][4]>>
               = <<Num(0), Num(0), Num(0), Num(1)>>

\* The matrix of a fresh estimator that was given the six numbers without
\* spaces: the line is no frame for meas_pattern, q is still that of
\* __init__ and the matrix is the identity.
C16_Witness ==
    /\ pc = "u_matrix"
    /\ line = UnspacedLine
    /\ result = NoResult
    /\ q = IdentityQ
    /\ \A i, j \in 1..4 : ret[i][j] = Num(IF i = j THEN 1 ELSE 0)

\* C13: when the serial port cannot be opened, the failure is logged and
\* the process exits with status 1, and no tick ever runs: no line is read,
\* nothing is published, no command is sent, nothing is written to the
\* store.
C13_OpenFailureIsFatal ==
    /\ (ser = "none" /\ pc \notin {"start", "open"}) =>
          /\ pc = "exited"
          /\ status = "exit1"
          /\ logged = "Could not open serial port"
          /\ cfg = "unread"
          /\ rx = "none"
          /\ tx = <<>>
          /\ out = <<>>
          /\ calls = <<>>
    /\ status = "exit1" => ser = "none"

\* The process has exited with status 1 after clearing the store.
C13_Witness ==
    /\ pc = "exited"
    /\ status = "exit1"
    /\ ser = "none"
    /\ logged = "Could not open serial port"
    /\ store = ClearedStore
    /\ cfg = "unread"

\* C17: no Measurement and no Calibration is decoded from a line that was
\* read short of its end; such a read ends the tick.
C17_NoFrameFromTruncatedLine ==
    (rx = "partial") => (result = NoResult /\ pc \notin {"t_cal", "t_meas"})

\* C18, as stated: a tick sends SCAL exactly when the candidate Calibration
\* built from the store differs from the last one adopted and has
\* is_constant false.  Stated for the ticks that read a mode the operator or
\* a tick wrote, and in which the write of SCAL did not raise.
C18_SendsAsReconciler ==
    (TickOver /\ cfg # "None" /\ exc # "SerialException") =>
        ((tx = <<ScalCommand>>) <=> recSends)

\* C18, amended: a tick sends SCAL and resets the mode exactly when the
\* calibration_type it read is not "constant" and the write of SCAL
\* returns, whether or not the candidate differs from the last calibration
\* adopted; every tick in which the Reconciler sends is a tick in which the
\* driver takes the branch that sends.
C18_SendsOnEveryRequest ==
    /\ (TickOver /\ exc # "SerialException") =>
          /\ (tx = <<ScalCommand>>) <=> (cfg # "constant")
          /\ (tx = <<ScalCommand>>) <=>
                (calls # <<>> /\ Head(calls) = SetMode("constant"))
    /\ (cfg # "unread" /\ recSends) => cfg # "constant"
    /\ (TickOver /\ recSends /\ exc # "SerialException") => tx = <<ScalCommand>>

\* A tick has sent SCAL for a request whose candidate is the calibration the
\* change detection already held.
C18_Witness ==
    /\ pc = "loop"
    /\ cfg = "device"
    /\ tx = <<ScalCommand>>
    /\ ~recSends
    /\ ~curr_calibration.is_constant

\* C19: once a tick's line has parsed as a Calibration, the tick leaves q
\* and last as they are, publishes nothing, raises nothing and never
\* reaches the lines that update, render and stream; it ends with the eight
\* writes of the report as its last.
C19_ReportOnlyWritesBack ==
    [][(result'.kind = "Calibration") =>
          /\ q' = q
          /\ last' = last
          /\ out' = <<>>
          /\ exc' = "none"
          /\ pc' \notin {"t_meas", "t_raised"}
          /\ (pc = "t_cal" /\ pc' # "t_cal") =>
                (pc' = "loop" /\ calls' = calls \o handle_calibration_data(result))]_vars

\* A report was written back while time had passed since the last
\* Measurement: last is where it was.
C19_Witness ==
    /\ pc = "loop"
    /\ result.kind = "Calibration"
    /\ Len(calls) = 8
    /\ clock > last
    /\ q = IdentityQ
    /\ out = <<>>

\* C20: a tick that finds calibration_type unset, as clear_all_values left
\* it, sends no SCAL command.
C20_UnsetModeIsConstant ==
    (cfg = "None") => (tx = <<>> /\ pc \notin {"t_scal", "t_reset"})

\* C21, as stated: the tick after a tick whose write of SCAL failed sends
\* SCAL.  Stated for the ticks that still find a mode other than "constant"
\* in the store.
C21_NextTickSends ==
    (TickOver /\ retry /\ cfg # "constant") => tx = <<ScalCommand>>

\* C21, amended: in a tick SCAL is written before the mode is reset, and
\* the mode is reset only when the write returned: a tick whose write
\* raised has sent nothing and written nothing to the store, so the request
\* stays there.  The next tick that finds it takes the branch that writes
\* SCAL again, and sends and resets if that write returns.
C21_ResetFollowsWrite ==
    [][/\ (pc' = "t_reset") => (tx' = <<ScalCommand>> /\ calls' = <<>>)
       /\ (exc' = "SerialException") => (tx' = <<>> /\ calls' = <<>>)
       /\ (pc = "t_scal" /\ pc' = "t_raised") =>
             store' = store
       /\ (pc = "t_reset" /\ pc' # "t_reset") =>
             (calls' = <<SetMode("constant")>> /\ store'.calibration_type = "constant")
       /\ (pc = "loop" /\ exc = "SerialException" /\ store.calibration_type = cfg
              /\ pc' \notin {"loop", "exited"}) =>
             (pc' = "t_scal" /\ retry' /\ cfg' = cfg)
       /\ (pc' = "loop" /\ retry' /\ cfg' # "constant" /\ exc' = "none") =>
             tx' = <<ScalCommand>>]_vars

\* The tick after a failed write has sent SCAL and reset the mode.
C21_Witness ==
    /\ pc = "loop"
    /\ retry
    /\ cfg = "device"
    /\ tx = <<ScalCommand>>
    /\ calls = <<SetMode("constant")>>
    /\ store.calibration_type = "constant"
=============================================================================
